---------------------------- MODULE Spec2Model ----------------------------
(***************************************************************************)
(* LTV impact simulator (Olist sellers): the two projection cores          *)
(*   - ltv_impact_simulator_v4.py : monthly survival-compounding model     *)
(*   - streamlit_app.py           : annual growth / retention model        *)
(* and the analytics of the pages that render them.                        *)
(*                                                                         *)
(* Python's float is the IEEE-754 binary64 format.  The arithmetic of the  *)
(* two cores is modelled bit for bit: a float is a sign, a 53-bit          *)
(* significand and a binary exponent, and every operation rounds to        *)
(* nearest, ties to even, as the hardware does.  The magnitudes the        *)
(* program reaches (about 1e-5 .. 1e12) stay far from the subnormal and    *)
(* overflow ranges, which are therefore not modelled.                      *)
(***************************************************************************)
EXTENDS Integers, Sequences, FiniteSets, TLC

(***************************************************************************)
(* Natural numbers of arbitrary size: little-endian sequences of limbs     *)
(* below Base, without high zero limbs; << >> is 0.  The operations are    *)
(* written without recursion over the limbs (carries are resolved by       *)
(* look-ahead), which keeps their evaluation shallow.                      *)
(*                                                                         *)
(* Arguments are taken by value, as Python takes them:                     *)
(*     CHOOSE r \in {e(v) : v \in {x}} : TRUE                              *)
(* is e(x) with x evaluated once, to the value v, before e is.             *)
(***************************************************************************)
LimbBits == 2 * 7
Base == 2 ^ LimbBits

Limb(x, i) == IF i >= 1 /\ i <= Len(x) THEN x[i] ELSE 0

Zeros(n) == [i \in 1..n |-> 0]

\* the index of the highest limb of x that is not 0
Top(x) == CHOOSE i \in 0..Len(x) : /\ i = 0 \/ x[i] # 0
                                   /\ \A j \in (i + 1)..Len(x) : x[j] = 0

\* x without its high zero limbs
BTrim(x) == CHOOSE r \in {SubSeq(v, 1, Top(v)) : v \in {x}} : TRUE

\* columns below 2^30 to columns below 2 * Base + 4
Carry1(c) ==
    CHOOSE r \in {<< >> \o [k \in 1..(Len(v) + 2) |->
                      (Limb(v, k) % Base) + ((Limb(v, k - 1) \div Base) % Base)
                                          + (Limb(v, k - 2) \div (Base * Base))] :
                  v \in {c}} : TRUE

\* columns below 3 * Base to columns of at most Base + 1
Carry2(d) ==
    CHOOSE r \in {<< >> \o [k \in 1..(Len(v) + 1) |->
                      (Limb(v, k) % Base) + (Limb(v, k - 1) \div Base)] :
                  v \in {d}} : TRUE

\* the carry into column k, for columns of at most Base + 1
CarryIn(e, k) ==
    \E j \in 1..(k - 1) : /\ e[j] >= Base
                          /\ \A i \in (j + 1)..(k - 1) : e[i] = Base - 1

Carry3(e) ==
    CHOOSE r \in {<< >> \o [k \in 1..(Len(v) + 1) |->
                      (Limb(v, k) + (IF CarryIn(v, k) THEN 1 ELSE 0)) % Base] :
                  v \in {e}} : TRUE

\* the number whose limb columns are c (each column below 2^30)
BNorm(c) == BTrim(Carry3(Carry2(Carry1(c))))

\* the number n, for 0 <= n < 2^31
BFromInt(n) == BTrim(<< n % Base, (n \div Base) % Base, n \div (Base * Base) >>)

Max(a, b) == IF a >= b THEN a ELSE b
Min(a, b) == IF a <= b THEN a ELSE b

BAdd(x, y) ==
    CHOOSE r \in {BTrim(Carry3(Carry2(<< >> \o [i \in 1..Max(Len(a), Len(b)) |->
                                                   Limb(a, i) + Limb(b, i)]))) :
                  a \in {x}, b \in {y}} : TRUE

\* the borrow into limb k of x - y
BorrowIn(x, y, k) ==
    \E j \in 1..(k - 1) : /\ Limb(x, j) < Limb(y, j)
                          /\ \A i \in (j + 1)..(k - 1) : Limb(x, i) = Limb(y, i)

\* x - y, for x >= y
BSub(x, y) ==
    CHOOSE r \in {BTrim(<< >> \o [k \in 1..Len(a) |->
                      (a[k] - Limb(b, k) - (IF BorrowIn(a, b, k) THEN 1 ELSE 0) + Base)
                      % Base]) :
                  a \in {x}, b \in {y}} : TRUE

\* the highest limb in which x and y differ, 0 if none does
TopDiff(x, y) ==
    CHOOSE i \in 0..Max(Len(x), Len(y)) :
        /\ i = 0 \/ Limb(x, i) # Limb(y, i)
        /\ \A j \in (i + 1)..Max(Len(x), Len(y)) : Limb(x, j) = Limb(y, j)

\* -1, 0, 1 as x < y, x = y, x > y, given the highest limb t in which they differ
BCmpAt(x, y, t) == IF t = 0 THEN 0 ELSE IF Limb(x, t) < Limb(y, t) THEN -1 ELSE 1

\* -1, 0, 1 as x < y, x = y, x > y
BCmp(x, y) == CHOOSE r \in {BCmpAt(a, b, TopDiff(a, b)) : a \in {x}, b \in {y}} : TRUE

\* x * y, for y of at most four limbs (a significand)
BMul(x, y) ==
    CHOOSE r \in {IF a = << >> \/ b = << >> THEN << >>
                  ELSE BNorm(<< >> \o [k \in 1..(Len(a) + 3) |->
                                 Limb(b, 1) * Limb(a, k) + Limb(b, 2) * Limb(a, k - 1)
                               + Limb(b, 3) * Limb(a, k - 2) + Limb(b, 4) * Limb(a, k - 3)]) :
                  a \in {x}, b \in {y}} : TRUE

BitLenInt(n) == CHOOSE b \in 0..LimbBits : n < 2 ^ b /\ (b = 0 \/ n >= 2 ^ (b - 1))

BitLen(x) == IF x = << >> THEN 0 ELSE LimbBits * (Len(x) - 1) + BitLenInt(x[Len(x)])

\* x * 2^r, for r < LimbBits
BShlBits(x, r) ==
    BTrim(<< >> \o [i \in 1..(Len(x) + 1) |->
              ((Limb(x, i) % (2 ^ (LimbBits - r))) * (2 ^ r))
              + (Limb(x, i - 1) \div (2 ^ (LimbBits - r)))])

\* x * 2^n
BShl(x, n) ==
    CHOOSE r \in {IF a = << >> THEN << >>
                  ELSE Zeros(s \div LimbBits) \o BShlBits(a, s % LimbBits) :
                  a \in {x}, s \in {n}} : TRUE

\* x \div 2^r, for r < LimbBits
BShrBits(x, r) ==
    CHOOSE q \in {BTrim(<< >> \o [i \in 1..Len(a) |->
                      (a[i] \div (2 ^ s)) + ((Limb(a, i + 1) % (2 ^ s)) * (2 ^ (LimbBits - s)))]) :
                  a \in {x}, s \in {r}} : TRUE

\* x \div 2^n
BShr(x, n) ==
    CHOOSE r \in {BShrBits(IF s \div LimbBits >= Len(a) THEN << >>
                           ELSE SubSeq(a, (s \div LimbBits) + 1, Len(a)),
                           s % LimbBits) :
                  a \in {x}, s \in {n}} : TRUE

BOdd(x) == x # << >> /\ x[1] % 2 = 1

\* the number x < 2^31 as an integer
BToInt(x) ==
    CHOOSE n \in {Limb(a, 1) + Base * Limb(a, 2) + Base * Base * Limb(a, 3) : a \in {x}} : TRUE

\* x^n, for x of at most four limbs
RECURSIVE BPow(_, _)
BPow(x, n) == IF n = 0 THEN << 1 >> ELSE BMul(BPow(x, n - 1), x)

(***************************************************************************)
(* binary64: [neg, m, e] stands for (-1)^neg * m * 2^e with m either 0     *)
(* (e = 0) or a 53-bit significand, 2^52 <= m < 2^53.                      *)
(***************************************************************************)
MantBits == 53

FZero == [neg |-> FALSE, m |-> << >>, e |-> 0]

\* the significand q (53 or, after a carry out of the rounding, 54 bits) as a float
FPack(neg, q, e) ==
    CHOOSE r \in {IF BitLen(v) > MantBits
                  THEN [neg |-> neg, m |-> BShr(v, 1), e |-> e + 1]
                  ELSE [neg |-> neg, m |-> v, e |-> e] :
                  v \in {q}} : TRUE

\* n of more than 53 bits, cut by sh bits: q1 is n without its low sh - 1 bits
\* (its last bit is the guard bit); rounds up on a guard bit with a sticky bit
\* below it or an odd quotient above it
FRoundCut(neg, n, e, sh, q1) ==
    CHOOSE r \in {FPack(neg,
                        IF BOdd(q1) /\ (BShl(q1, sh - 1) # n \/ BOdd(q))
                        THEN BAdd(q, << 1 >>) ELSE q,
                        e + sh) :
                  q \in {BShr(q1, 1)}} : TRUE

\* (-1)^neg * n * 2^e for n of L bits, rounded to nearest, ties to even
FRoundBits(neg, n, e, L) ==
    IF L = 0 THEN FZero
    ELSE IF L <= MantBits
    THEN [neg |-> neg, m |-> BShl(n, MantBits - L), e |-> e - (MantBits - L)]
    ELSE CHOOSE r \in {FRoundCut(neg, n, e, L - MantBits, q1) :
                       q1 \in {BShr(n, L - MantBits - 1)}} : TRUE

\* (-1)^neg * n * 2^e rounded to nearest, ties to even
FRound(neg, n, e) == CHOOSE r \in {FRoundBits(neg, v, e, BitLen(v)) : v \in {n}} : TRUE

\* float(n) for a Python int n (exact below 2^53)
FromInt(n) == IF n < 0 THEN FRound(TRUE, BFromInt(-n), 0) ELSE FRound(FALSE, BFromInt(n), 0)

FNeg(x) ==
    CHOOSE r \in {IF a.m = << >> THEN a ELSE [a EXCEPT !.neg = ~a.neg] : a \in {x}} : TRUE

FAbs(x) == [x EXCEPT !.neg = FALSE]

FMul(x, y) ==
    CHOOSE r \in {IF a.m = << >> \/ b.m = << >> THEN FZero
                  ELSE FRound(a.neg # b.neg, BMul(a.m, b.m), a.e + b.e) :
                  a \in {x}, b \in {y}} : TRUE

\* (-1)^xneg * p * 2^e + (-1)^yneg * q * 2^e for p, q # 0
FAddAligned(xneg, p, yneg, q, e) ==
    CHOOSE r \in {IF xneg = yneg THEN FRound(xneg, BAdd(u, v), e)
                  ELSE IF c = 0 THEN FZero
                  ELSE IF c > 0 THEN FRound(xneg, BSub(u, v), e)
                  ELSE FRound(yneg, BSub(v, u), e) :
                  u \in {p}, v \in {q}, c \in {BCmp(p, q)}} : TRUE

FAdd(x, y) ==
    CHOOSE r \in {IF a.m = << >> THEN b
                  ELSE IF b.m = << >> THEN a
                  ELSE FAddAligned(a.neg, BShl(a.m, a.e - Min(a.e, b.e)),
                                   b.neg, BShl(b.m, b.e - Min(a.e, b.e)),
                                   Min(a.e, b.e)) :
                  a \in {x}, b \in {y}} : TRUE

FSub(x, y) == FAdd(x, FNeg(y))

\* the quotient limb est, or est - 1 when est * y exceeds the remainder rB
FDivLimb(y, quot, rB, est) ==
    CHOOSE r \in {IF BCmp(t, rB) > 0
                  THEN << << q - 1 >> \o quot, BSub(BAdd(rB, y), t) >>
                  ELSE << << q >> \o quot, BSub(rB, t) >> :
                  q \in {est}, t \in {BMul(y, BFromInt(est))}} : TRUE

\* One limb of the long division by a significand y (53 bits), from the state
\* qr = << quotient so far, remainder so far >>, remainder < y.  The quotient limb
\* is estimated from the leading bits of remainder * Base and of y; the estimate
\* is the limb or one more than it.
FDivStep(y, qr) ==
    CHOOSE r \in {FDivLimb(y, qr[1], rB,
                           BToInt(BShr(rB, MantBits - 16)) \div BToInt(BShr(y, MantBits - 16))) :
                  rB \in {IF qr[2] = << >> THEN << >> ELSE << 0 >> \o qr[2]}} : TRUE

\* k limbs of the long division
RECURSIVE FDivSteps(_, _, _)
FDivSteps(y, qr, k) ==
    IF k = 0 THEN qr
    ELSE CHOOSE r \in {FDivStep(y, before) : before \in {FDivSteps(y, qr, k - 1)}} : TRUE

\* the integer part of the quotient of two significands (0 or 1) and the remainder
FDivStart(p, q) == IF BCmp(p, q) >= 0 THEN << << 1 >>, BSub(p, q) >> ELSE << << 0 >>, p >>

\* the quotient qr[1] with a sticky bit for a remainder qr[2] # 0, rounded
FDivRound(neg, qr, e) ==
    CHOOSE r \in {FRound(neg, BAdd(BShl(BTrim(v[1]), 1),
                                   IF v[2] = << >> THEN << >> ELSE << 1 >>), e) :
                  v \in {qr}} : TRUE

\* x / y for y # 0: the quotient of the significands to 56 fraction bits and a
\* sticky bit, then one rounding
FDiv(x, y) ==
    CHOOSE r \in {IF a.m = << >> THEN FZero
                  ELSE FDivRound(a.neg # b.neg, FDivSteps(b.m, FDivStart(a.m, b.m), 4),
                                 a.e - b.e - 4 * LimbBits - 1) :
                  a \in {x}, b \in {y}} : TRUE

\* -1, 0, 1 as x < y, x = y, x > y
FCmp(x, y) ==
    CHOOSE r \in {IF d.m = << >> THEN 0 ELSE IF d.neg THEN -1 ELSE 1 :
                  d \in {FSub(x, y)}} : TRUE

FLt(x, y) == FCmp(x, y) < 0
FLe(x, y) == FCmp(x, y) <= 0
FIsZero(x) == x.m = << >>

\* the float a decimal literal num/den denotes: the double nearest to it
Lit(num, den) == FDiv(FromInt(num), FromInt(den))

(***************************************************************************)
(* ltv_impact_simulator_v4.py: the survival-compounding model              *)
(***************************************************************************)
\* the table of the archetypes' parameters (the fields the projection reads)
ARCHETYPE_PARAMS ==
    << [key |-> "Born Successful",  monthly_churn_rate |-> Lit(704, 10000),
                                    subscription_fee   |-> Lit(5228, 100)],
       [key |-> "Grown Successful", monthly_churn_rate |-> Lit(15, 100),
                                    subscription_fee   |-> Lit(49, 1)],
       [key |-> "Struggling",       monthly_churn_rate |-> Lit(15, 100),
                                    subscription_fee   |-> Lit(4923, 100)],
       [key |-> "Failed",           monthly_churn_rate |-> Lit(15, 100),
                                    subscription_fee   |-> Lit(4930, 100)] >>

\* max_value of the page's number inputs; the projection itself has no cap
NUMBER_INPUT_MAX == 5000

\* MonthAccrue with the month's own accrual appended at the twelfth months in
\* place of the cumulative value
MonthAccrue_month_value(params, month, st, survival_probability) ==
    CHOOSE r \in {[survival_probability |-> survival_probability,
                   cumulative_ltv       |-> FAdd(st.cumulative_ltv, accrued),
                   single_seller_ltv    |-> IF month % 12 = 0
                                            THEN Append(st.single_seller_ltv, accrued)
                                            ELSE st.single_seller_ltv] :
                  accrued \in
                      {FMul(params.subscription_fee, survival_probability)}} : TRUE

\* the end of one pass of the loop over the months, from the survival
\* probability the pass has updated: the month's fee is accrued and, every
\* twelfth month, the cumulative value is appended
MonthAccrue(params, month, st, survival_probability) ==
    CHOOSE r \in {[survival_probability |-> survival_probability,
                   cumulative_ltv       |-> cumulative_ltv,
                   single_seller_ltv    |-> IF month % 12 = 0
                                            THEN Append(st.single_seller_ltv, cumulative_ltv)
                                            ELSE st.single_seller_ltv] :
                  cumulative_ltv \in
                      {FAdd(st.cumulative_ltv,
                            FMul(params.subscription_fee, survival_probability))}} : TRUE

\* MonthStep with the fee accrued at the survival probability of the month
\* before, and the probability updated after it
MonthStep_accrue_first(params, month, st) ==
    CHOOSE r \in {[accrued EXCEPT !.survival_probability =
                       FMul(accrued.survival_probability,
                            FSub(FromInt(1), params.monthly_churn_rate))] :
                  accrued \in
                      {MonthAccrue(params, month, st, st.survival_probability)}} : TRUE

\* one pass of the loop over the months: st holds the loop's variables
MonthStep(params, month, st) ==
    CHOOSE r \in {MonthAccrue(params, month, st, survival_probability) :
                  survival_probability \in
                      {FMul(st.survival_probability,
                            FSub(FromInt(1), params.monthly_churn_rate))}} : TRUE

\* the passes lo .. hi of the loop over the months, from the loop variables st
\* (the range is halved rather than walked, to keep the evaluation shallow)
RECURSIVE MonthLoop(_, _, _, _)
MonthLoop(params, lo, hi, st) ==
    IF lo > hi THEN st
    ELSE IF lo = hi THEN MonthStep(params, lo, st)
    ELSE CHOOSE r \in {MonthLoop(params, (lo + hi) \div 2 + 1, hi, half) :
                       half \in {MonthLoop(params, lo, (lo + hi) \div 2, st)}} : TRUE

\* the loop's variables before the first pass
LoopStart == [survival_probability |-> FromInt(1),
              cumulative_ltv       |-> FZero,
              single_seller_ltv    |-> << >>]

\* the yearly snapshots of one seller's cumulative LTV after the loop over
\* range(1, months + 1)
single_seller_ltv(params, months) ==
    CHOOSE r \in {MonthLoop(row, 1, months, start).single_seller_ltv :
                  row \in {params}, start \in {LoopStart}} : TRUE

\* months=60, the default of simulate_archetype_ltv
DEFAULT_MONTHS == 60

\* single_seller_ltv of each row of the table at the default horizon, which is
\* what every call without a months argument computes
SINGLE_SELLER_DEFAULT ==
    CHOOSE r \in {<< >> \o [i \in 1..Len(table) |->
                      single_seller_ltv(table[i], DEFAULT_MONTHS)] :
                  table \in {ARCHETYPE_PARAMS}} : TRUE

\* key in table, and the row table[key], for a table held as a sequence of rows
HasKey(table, key) == \E i \in 1..Len(table) : table[i].key = key
IndexOf(table, key) == CHOOSE i \in 1..Len(table) : table[i].key = key

\* What a call hands back: err is "none" and value the returned object, or err
\* names the exception that left the call.  passes counts the passes of the
\* accrual loop the call ran.
Returned(value, passes) == [err |-> "none", value |-> value, passes |-> passes]
Raised(exception) == [err |-> exception, value |-> << >>, passes |-> 0]

\* Scaled with the cap of the number inputs enforced on the count:
\* ltv * min(seller_count, 5000)
Scaled_capped(single, seller_count) ==
    CHOOSE r \in {[i \in 1..Len(series) |->
                      FMul(series[i], FromInt(Min(seller_count, NUMBER_INPUT_MAX)))] :
                  series \in {single}} : TRUE

\* [ltv * seller_count for ltv in single_seller_ltv]
Scaled(single, seller_count) ==
    CHOOSE r \in {[i \in 1..Len(series) |-> FMul(series[i], FromInt(seller_count))] :
                  series \in {single}} : TRUE

\* simulate_archetype_ltv with the table lookup and the accrual loop ahead of
\* the test for a seller count of 0 (the fast path lost)
simulate_archetype_ltv_without_fast_path(archetype, seller_count, months) ==
    CHOOSE r \in
        {IF ~HasKey(table, archetype)
         THEN Raised("KeyError")
         ELSE Returned(Scaled(single_seller_ltv(table[IndexOf(table, archetype)], months),
                              seller_count),
                       IF months < 0 THEN 0 ELSE months) :
         table \in {ARCHETYPE_PARAMS}} : TRUE

simulate_archetype_ltv(archetype, seller_count, months) ==
    IF seller_count = 0
    THEN Returned([i \in 1..(months \div 12) |-> FZero], 0)
    ELSE CHOOSE r \in
             {IF ~HasKey(table, archetype)
              THEN Raised("KeyError")
              ELSE Returned(Scaled(IF months = DEFAULT_MONTHS
                                   THEN SINGLE_SELLER_DEFAULT[IndexOf(table, archetype)]
                                   ELSE single_seller_ltv(table[IndexOf(table, archetype)],
                                                          months),
                                   seller_count),
                            IF months < 0 THEN 0 ELSE months) :
              table \in {ARCHETYPE_PARAMS}} : TRUE

\* AddSeries with "=" for "+=": total_ltv_by_year[i] = archetype_ltv[i]
AddSeries_assigned(total_ltv_by_year, archetype_ltv) ==
    [i \in 1..5 |-> archetype_ltv[i]]

\* total_ltv_by_year[i] += archetype_ltv[i] for i in range(5)
AddSeries(total_ltv_by_year, archetype_ltv) ==
    [i \in 1..5 |-> FAdd(total_ltv_by_year[i], archetype_ltv[i])]

\* the state of calculate_total_ltv before its loop
TotalStart == [err |-> "none", total_ltv_by_year |-> [i \in 1..5 |-> FZero],
               archetype_contributions |-> << >>, passes |-> 0]

\* one pass of the loop over seller_counts.items(), from the state before; an
\* exception of simulate_archetype_ltv leaves the loop and the function
TotalStep(before, item) ==
    CHOOSE r \in
        {IF state.err # "none" THEN state
         ELSE IF archetype_ltv.err # "none"
         THEN [err |-> archetype_ltv.err, total_ltv_by_year |-> << >>,
               archetype_contributions |-> << >>, passes |-> 0]
         ELSE [err |-> "none",
               total_ltv_by_year |-> AddSeries(state.total_ltv_by_year,
                                               archetype_ltv.value),
               archetype_contributions |->
                   Append(state.archetype_contributions,
                          [key |-> item.key,
                           value |-> archetype_ltv.value[Len(archetype_ltv.value)]]),
               passes |-> state.passes + archetype_ltv.passes] :
         state \in {before},
         archetype_ltv \in {simulate_archetype_ltv(item.key, item.count, DEFAULT_MONTHS)}} : TRUE

\* the first k passes of the loop
RECURSIVE TotalLoop(_, _)
TotalLoop(seller_counts, k) ==
    IF k = 0 THEN TotalStart
    ELSE TotalStep(TotalLoop(seller_counts, k - 1), seller_counts[k])

\* seller_counts is the dict as the sequence of its items, in insertion order
calculate_total_ltv(seller_counts) == TotalLoop(seller_counts, Len(seller_counts))

(***************************************************************************)
(* streamlit_app.py: the annual growth / retention model                   *)
(***************************************************************************)
\* the table of the archetypes' data (the fields the projection reads)
ARCHETYPE_DATA ==
    << [key |-> "Rising_Star",       avg_ltv |-> Lit(1542050, 100),
        growth_rate |-> Lit(25, 100), retention_rate |-> Lit(85, 100)],
       [key |-> "Steady_Performer",  avg_ltv |-> Lit(875030, 100),
        growth_rate |-> Lit(15, 100), retention_rate |-> Lit(78, 100)],
       [key |-> "Struggling_Seller", avg_ltv |-> Lit(325080, 100),
        growth_rate |-> Lit(8, 100),  retention_rate |-> Lit(45, 100)],
       [key |-> "Underperformer",    avg_ltv |-> Lit(118020, 100),
        growth_rate |-> Lit(2, 100),  retention_rate |-> Lit(25, 100)] >>

\* sum(values): the built-in sum, from the left, starting at 0
RECURSIVE SumTo(_, _)
SumTo(values, k) == IF k = 0 THEN FZero ELSE FAdd(SumTo(values, k - 1), values[k])
Sum(values) == CHOOSE r \in {SumTo(v, Len(v)) : v \in {values}} : TRUE

\* the values of 1 + growth_rate at which x ** n is modelled: those of the
\* rows of ARCHETYPE_DATA, and 1.10, the growth of the scenario of the
\* properties
GROWTH_BASES ==
    {FAdd(FromInt(1), ARCHETYPE_DATA[i].growth_rate) : i \in 1..Len(ARCHETYPE_DATA)}
        \cup {FAdd(FromInt(1), Lit(10, 100))}

\* (1 + growth_rate) ** year.  Python hands x ** n to pow of libm, which is
\* accurate to within one unit in the last place and is not correctly rounded
\* for every base.  For a base of GROWTH_BASES and a year of the loop, 1..5, pow
\* returns the correctly rounded power, which is the value here; x ** 0 is
\* 1.0 for every x; for another base with n > 0 the model leaves x ** n
\* undefined.
FPow(x, n) ==
    IF n = 0 THEN FromInt(1)
    ELSE CHOOSE r \in {FRound(a.neg /\ n % 2 = 1, BPow(a.m, n), a.e * n) :
                       a \in {b \in {x} \cap GROWTH_BASES : n \in 1..5}} : TRUE

\* YearStep with remaining_sellers *= retention_rate ahead of the year's value
YearStep_retained_first(data, year, st) ==
    CHOOSE r \in
        {[yearly_ltv        |-> Append(st.yearly_ltv,
                                       FMul(FMul(data.avg_ltv,
                                                 FPow(FAdd(FromInt(1), data.growth_rate),
                                                      year)),
                                            remaining_sellers)),
          remaining_sellers |-> remaining_sellers] :
         remaining_sellers \in {FMul(st.remaining_sellers, data.retention_rate)}} : TRUE

\* one pass of the loop "for year in range(1, 6)": st holds the values booked
\* so far and the sellers remaining
YearStep(data, year, st) ==
    CHOOSE r \in
        {[yearly_ltv        |-> Append(before.yearly_ltv,
                                       FMul(FMul(data.avg_ltv,
                                                 FPow(FAdd(FromInt(1), data.growth_rate),
                                                      year)),
                                            before.remaining_sellers)),
          remaining_sellers |-> FMul(before.remaining_sellers, data.retention_rate)] :
         before \in {st}} : TRUE

\* the loop through its pass number year, from remaining_sellers = count
RECURSIVE YearLoop(_, _, _)
YearLoop(data, count, year) ==
    IF year = 0
    THEN [yearly_ltv |-> << >>, remaining_sellers |-> FromInt(count)]
    ELSE YearStep(data, year, YearLoop(data, count, year - 1))

\* the state of calculate_ltv_impact before its first loop
ImpactStart == [err |-> "none", total_impact |-> FZero, archetype_contributions |-> << >>]

\* ImpactBooked with "total_impact = sum(yearly_ltv)" for "total_impact += ..."
ImpactBooked_total_assigned(before, item, data) ==
    CHOOSE r \in
        {[err |-> "none",
          total_impact |-> Sum(yearly_ltv),
          archetype_contributions |->
              Append(before.archetype_contributions,
                     [key |-> item.key, total |-> Sum(yearly_ltv),
                      yearly |-> yearly_ltv])] :
         yearly_ltv \in {YearLoop(data, item.count, 5).yearly_ltv}} : TRUE

\* the contribution of an archetype present in the table and what it adds to
\* total_impact
ImpactBooked(before, item, data) ==
    CHOOSE r \in
        {[err |-> "none",
          total_impact |-> FAdd(before.total_impact, Sum(yearly_ltv)),
          archetype_contributions |->
              Append(before.archetype_contributions,
                     [key |-> item.key, total |-> Sum(yearly_ltv),
                      yearly |-> yearly_ltv])] :
         yearly_ltv \in {YearLoop(data, item.count, 5).yearly_ltv}} : TRUE

\* one pass of the loop over seller_counts.items(), from the state before
ImpactStep(before, item) ==
    CHOOSE r \in
        {IF state.err # "none" \/ ~(item.count > 0) THEN state
         ELSE IF ~HasKey(table, item.key)
         THEN [err |-> "KeyError", total_impact |-> FZero,
               archetype_contributions |-> << >>]
         ELSE ImpactBooked(state, item, table[IndexOf(table, item.key)]) :
         state \in {before}, table \in {ARCHETYPE_DATA}} : TRUE

\* the first k passes of the loop
RECURSIVE ImpactLoop(_, _)
ImpactLoop(seller_counts, k) ==
    IF k = 0 THEN ImpactStart
    ELSE ImpactStep(ImpactLoop(seller_counts, k - 1), seller_counts[k])

\* Projections with the first year's values summed for every year
Projections_first_year(archetype_contributions) ==
    [year \in 1..5 |->
        Sum([j \in 1..Len(archetype_contributions) |->
                archetype_contributions[j].yearly[1]])]

\* the second loop: yearly_projections from the contributions
Projections(archetype_contributions) ==
    [year \in 1..5 |->
        Sum([j \in 1..Len(archetype_contributions) |->
                archetype_contributions[j].yearly[year]])]

\* seller_counts is the dict as the sequence of its items, in insertion order
calculate_ltv_impact(seller_counts) ==
    CHOOSE r \in
        {IF loop.err # "none"
         THEN [err |-> loop.err, total_impact |-> FZero, yearly_projections |-> << >>,
               archetype_contributions |-> << >>]
         ELSE [err |-> "none",
               total_impact |-> loop.total_impact,
               yearly_projections |-> Projections(loop.archetype_contributions),
               archetype_contributions |-> loop.archetype_contributions] :
         loop \in {ImpactLoop(seller_counts, Len(seller_counts))}} : TRUE

(***************************************************************************)
(* Calls of the two cores.  A caller picks the arguments (Init), makes the *)
(* call, and makes it once more with every seller count doubled.           *)
(***************************************************************************)
VARIABLES
    pc,            \* "ready", "returned", "doubled": the caller's position
    call,          \* the function called and its arguments
    ret,           \* what the call handed back
    ret_doubled,   \* what the call with the counts doubled handed back
    app,           \* the page that is served, "none" while the cores are called directly
    session_state, \* the page's widgets: the dict seller_counts they fill
    screen,        \* what the last run of the page's script rendered
    tables         \* the module-level dicts of the archetypes' parameters

vars == << pc, call, ret, ret_doubled, app, session_state, screen, tables >>

\* the tables a module defines when it is loaded: both modules for the direct
\* calls, its own for a page
ModuleTables(module) ==
    IF module = "ltv_impact_simulator_v4" THEN [ARCHETYPE_PARAMS |-> ARCHETYPE_PARAMS]
    ELSE IF module = "streamlit_app" THEN [ARCHETYPE_DATA |-> ARCHETYPE_DATA]
    ELSE [ARCHETYPE_PARAMS |-> ARCHETYPE_PARAMS, ARCHETYPE_DATA |-> ARCHETYPE_DATA]

\* nothing handed back yet
Pending == [err |-> "pending"]

\* max_value of the sliders of streamlit_app.py
SLIDER_MAX == 1000

\* the small seller counts the calls are made with: -1 .. MaxSmallCount
MaxSmallCount == 3

SURVIVAL_KEYS == {ARCHETYPE_PARAMS[i].key : i \in 1..Len(ARCHETYPE_PARAMS)}
ANNUAL_KEYS == {ARCHETYPE_DATA[i].key : i \in 1..Len(ARCHETYPE_DATA)}

\* an archetype identifier that neither table has
UnknownKey == "Premium"

\* the dicts over the keys of keylist, in that order, with counts of countset
Dicts(keylist, countset) ==
    {[i \in 1..Len(keylist) |-> [key |-> keylist[i], count |-> c[i]]] :
        c \in [1..Len(keylist) -> countset]}

SimulateCounts == ((-1)..MaxSmallCount) \cup {NUMBER_INPUT_MAX, NUMBER_INPUT_MAX + 1}
Horizons == {DEFAULT_MONTHS, 30}
EdgeCounts == {-1, 0, MaxSmallCount - 1}

SimulateCalls ==
    {[fn |-> "simulate_archetype_ltv", archetype |-> a, seller_count |-> c, months |-> h] :
        a \in SURVIVAL_KEYS \cup {UnknownKey}, c \in SimulateCounts, h \in Horizons}

SurvivalDicts ==
    Dicts(<< "Born Successful", "Grown Successful", "Struggling", "Failed" >>,
          {0, MaxSmallCount, NUMBER_INPUT_MAX + 1})
    \cup Dicts(<< "Failed", "Born Successful" >>, EdgeCounts)
    \cup Dicts(<< "Grown Successful", UnknownKey >>, EdgeCounts)
    \cup Dicts(<< UnknownKey >>, EdgeCounts) \cup {<< >>}

AnnualDicts ==
    Dicts(<< "Rising_Star", "Steady_Performer", "Struggling_Seller", "Underperformer" >>,
          {0, MaxSmallCount, SLIDER_MAX + 1})
    \cup Dicts(<< "Underperformer", "Rising_Star" >>, EdgeCounts)
    \cup Dicts(<< "Steady_Performer", UnknownKey >>, EdgeCounts)
    \cup Dicts(<< UnknownKey >>, EdgeCounts) \cup {<< >>}

TotalCalls == {[fn |-> "calculate_total_ltv", seller_counts |-> d] : d \in SurvivalDicts}
ImpactCalls == {[fn |-> "calculate_ltv_impact", seller_counts |-> d] : d \in AnnualDicts}

\* the dict with every count doubled
Doubled(seller_counts) ==
    [i \in 1..Len(seller_counts) |->
        [key |-> seller_counts[i].key, count |-> 2 * seller_counts[i].count]]

Init ==
    /\ pc = "ready"
    /\ call \in SimulateCalls \cup TotalCalls \cup ImpactCalls
    /\ ret = Pending
    /\ ret_doubled = Pending
    /\ app = "none"
    /\ session_state = << >>
    /\ screen = << >>
    /\ tables = ModuleTables("none")

Simulate ==
    /\ pc = "ready" /\ call.fn = "simulate_archetype_ltv"
    /\ ret' = simulate_archetype_ltv(call.archetype, call.seller_count, call.months)
    /\ pc' = "returned"
    /\ UNCHANGED << call, ret_doubled, app, session_state, screen, tables >>

SimulateDoubled ==
    /\ pc = "returned" /\ call.fn = "simulate_archetype_ltv"
    /\ ret_doubled' = simulate_archetype_ltv(call.archetype, 2 * call.seller_count,
                                             call.months)
    /\ pc' = "doubled"
    /\ UNCHANGED << call, ret, app, session_state, screen, tables >>

TotalLtv ==
    /\ pc = "ready" /\ call.fn = "calculate_total_ltv"
    /\ ret' = calculate_total_ltv(call.seller_counts)
    /\ pc' = "returned"
    /\ UNCHANGED << call, ret_doubled, app, session_state, screen, tables >>

TotalLtvDoubled ==
    /\ pc = "returned" /\ call.fn = "calculate_total_ltv"
    /\ ret_doubled' = calculate_total_ltv(Doubled(call.seller_counts))
    /\ pc' = "doubled"
    /\ UNCHANGED << call, ret, app, session_state, screen, tables >>

LtvImpact ==
    /\ pc = "ready" /\ call.fn = "calculate_ltv_impact"
    /\ ret' = calculate_ltv_impact(call.seller_counts)
    /\ pc' = "returned"
    /\ UNCHANGED << call, ret_doubled, app, session_state, screen, tables >>

LtvImpactDoubled ==
    /\ pc = "returned" /\ call.fn = "calculate_ltv_impact"
    /\ ret_doubled' = calculate_ltv_impact(Doubled(call.seller_counts))
    /\ pc' = "doubled"
    /\ UNCHANGED << call, ret, app, session_state, screen, tables >>

Next ==
    \/ Simulate
    \/ SimulateDoubled
    \/ TotalLtv
    \/ TotalLtvDoubled
    \/ LtvImpact
    \/ LtvImpactDoubled

Spec == Init /\ [][Next]_vars

(***************************************************************************)
(* The pages.  Streamlit runs a page's script from top to bottom when the  *)
(* page is opened and again after every change of a widget; screen holds   *)
(* the values the last run computed for display.                           *)
(***************************************************************************)
\* x / y of Python: ZeroDivisionError when y is zero
Divided(x, y) ==
    CHOOSE r \in {IF FIsZero(d) THEN [status |-> "ZeroDivisionError", value |-> FZero]
                  ELSE [status |-> "shown", value |-> FDiv(x, d)] :
                  d \in {y}} : TRUE

\* a metric the run did not compute, and a panel the run did not reach
NotComputed == [status |-> "omitted", value |-> FZero]
NotRendered == [err |-> "not rendered"]

\* seller_counts[key] and sum(seller_counts.values())
CountOf(seller_counts, key) == seller_counts[IndexOf(seller_counts, key)].count
RECURSIVE CountSum(_, _)
CountSum(seller_counts, k) ==
    IF k = 0 THEN 0 ELSE CountSum(seller_counts, k - 1) + seller_counts[k].count

\* ltv_impact_simulator_v4.py: the number inputs, value=... of each, and the
\* dict the script fills from them
NUMBER_INPUTS ==
    << [widget |-> "born_count",     archetype |-> "Born Successful",  value |-> 226],
       [widget |-> "grown_count",    archetype |-> "Grown Successful", value |-> 142],
       [widget |-> "struggle_count", archetype |-> "Struggling",       value |-> 708],
       [widget |-> "fail_count",     archetype |-> "Failed",           value |-> 1901] >>

\* the dict seller_counts a run of a page's script reads from its widgets
WidgetCounts(widgets, state) ==
    [i \in 1..Len(widgets) |->
        [key |-> widgets[i].archetype, count |-> state[widgets[i].widget]]]

\* one pass of the loop that fills contribution_data: a contribution above
\* zero is booked with the description of its row of ARCHETYPE_PARAMS; a pass
\* that raises leaves the list as it was
ContributionStep(before, item, seller_counts) ==
    CHOOSE r \in
        {IF state.err # "none" \/ ~FLt(FZero, contribution.value) THEN state
         ELSE IF ~HasKey(ARCHETYPE_PARAMS, contribution.key)
                 \/ ~HasKey(seller_counts, contribution.key)
         THEN [err |-> "KeyError", data |-> state.data]
         ELSE [err |-> "none",
               data |-> Append(state.data,
                               [key |-> contribution.key,
                                Contribution |-> contribution.value,
                                Count |-> CountOf(seller_counts, contribution.key)])] :
         state \in {before}, contribution \in {item}} : TRUE

\* contribution_data of the donut chart: the contributions above zero
RECURSIVE ContributionData(_, _, _)
ContributionData(seller_counts, archetype_contributions, k) ==
    IF k = 0 THEN [err |-> "none", data |-> << >>]
    ELSE ContributionStep(ContributionData(seller_counts, archetype_contributions, k - 1),
                          archetype_contributions[k], seller_counts)

\* efficiency_data.sort(key=lambda x: x[1], reverse=True): a stable sort, an
\* entry goes behind the entries that are not less efficient
InsertAt(sorted, entry, p) ==
    CHOOSE r \in {SubSeq(data, 1, p) \o << entry >> \o SubSeq(data, p + 1, Len(data)) :
                  data \in {sorted}} : TRUE
\* Insert with the entry put ahead of the entries as efficient as it is
Insert_ahead_of_equals(sorted, entry) ==
    CHOOSE r \in
        {InsertAt(data, e, Cardinality({i \in 1..Len(data) :
                                           FLt(e.efficiency, data[i].efficiency)})) :
         data \in {sorted}, e \in {entry}} : TRUE

Insert(sorted, entry) ==
    CHOOSE r \in
        {InsertAt(data, e, Cardinality({i \in 1..Len(data) :
                                           FLe(e.efficiency, data[i].efficiency)})) :
         data \in {sorted}, e \in {entry}} : TRUE
RECURSIVE SortedTo(_, _)
SortedTo(efficiency_data, k) ==
    IF k = 0 THEN << >> ELSE Insert(SortedTo(efficiency_data, k - 1), efficiency_data[k])

\* one pass of the loop that fills efficiency_data, the quotient given; a
\* pass that raises leaves the list as it was
EfficiencyBooked(before, key, count, quotient) ==
    CHOOSE r \in
        {IF q.status # "shown" THEN [err |-> q.status, data |-> before.data]
         ELSE [err |-> "none",
               data |-> Append(before.data,
                               [key |-> key, efficiency |-> q.value, count |-> count])] :
         q \in {quotient}} : TRUE
EfficiencyCounted(before, item, seller_count) ==
    CHOOSE r \in
        {IF ~(count > 0) THEN state
         ELSE EfficiencyBooked(state, contribution.key, count,
                               Divided(contribution.value, FromInt(count))) :
         state \in {before}, contribution \in {item}, count \in {seller_count}} : TRUE
EfficiencyStep(before, item, seller_counts) ==
    CHOOSE r \in
        {IF state.err # "none" THEN state
         ELSE IF ~HasKey(seller_counts, contribution.key)
         THEN [err |-> "KeyError", data |-> state.data]
         ELSE EfficiencyCounted(state, contribution,
                                CountOf(seller_counts, contribution.key)) :
         state \in {before}, contribution \in {item}} : TRUE
RECURSIVE EfficiencyLoop(_, _, _)
EfficiencyLoop(archetype_contributions, seller_counts, k) ==
    IF k = 0 THEN [err |-> "none", data |-> << >>]
    ELSE EfficiencyStep(EfficiencyLoop(archetype_contributions, seller_counts, k - 1),
                        archetype_contributions[k], seller_counts)

\* the lines of the ranking the panel writes: each needs the description of
\* its archetype's row of ARCHETYPE_PARAMS, and the first that has none ends
\* the run
RankingWritten(ranking) ==
    CHOOSE r \in
        {Cardinality({j \in 1..Len(sorted) :
                         \A i \in 1..j : HasKey(ARCHETYPE_PARAMS, sorted[i].key)}) :
         sorted \in {ranking}} : TRUE

\* the panel once efficiency_data is sorted: nothing when it is empty; else
\* the average and the best archetype, whose description is looked up in
\* ARCHETYPE_PARAMS, and under them the lines of the ranking
InsightsRanked(average, ranking) ==
    CHOOSE r \in
        {IF sorted = << >>
         THEN [err |-> "none", avg_ltv_per_seller |-> NotComputed,
               efficiency_data |-> sorted, ranking_written |-> 0]
         ELSE IF ~HasKey(ARCHETYPE_PARAMS, sorted[1].key)
         THEN [err |-> "KeyError", avg_ltv_per_seller |-> NotComputed,
               efficiency_data |-> sorted, ranking_written |-> 0]
         ELSE [err |-> IF RankingWritten(sorted) = Len(sorted) THEN "none"
                       ELSE "KeyError",
               avg_ltv_per_seller |-> average,
               efficiency_data |-> sorted,
               ranking_written |-> RankingWritten(sorted)] :
         sorted \in {ranking}} : TRUE

\* the insights panel once total_sellers > 0 holds
InsightsShown(average, efficiency) ==
    CHOOSE r \in
        {IF avg.status # "shown"
         THEN [err |-> avg.status, avg_ltv_per_seller |-> NotComputed,
               efficiency_data |-> << >>, ranking_written |-> 0]
         ELSE IF eff.err # "none"
         THEN [err |-> eff.err, avg_ltv_per_seller |-> NotComputed,
               efficiency_data |-> eff.data, ranking_written |-> 0]
         ELSE InsightsRanked(avg, SortedTo(eff.data, Len(eff.data))) :
         avg \in {average}, eff \in {efficiency}} : TRUE

\* the panel of the insights
Insights(seller_counts, total_sellers, final_ltv, archetype_contributions) ==
    IF total_sellers > 0
    THEN InsightsShown(Divided(final_ltv, FromInt(total_sellers)),
                       EfficiencyLoop(archetype_contributions, seller_counts,
                                      Len(archetype_contributions)))
    ELSE [err |-> "none", avg_ltv_per_seller |-> NotComputed, efficiency_data |-> << >>,
          ranking_written |-> 0]

\* the comparison once both efficiencies are at hand: the two are written,
\* then the ratio is computed when Born is the more efficient; a division by
\* zero there leaves the two efficiencies on the screen
Ratioed(born_efficiency, others_efficiency, ratio) ==
    CHOOSE r \in
        {[err |-> IF q.status = "ZeroDivisionError" THEN q.status ELSE "none",
          born_efficiency |-> born_efficiency,
          others_efficiency |-> others_efficiency,
          ratio |-> IF q.status = "ZeroDivisionError" THEN NotComputed ELSE q] :
         q \in {ratio}} : TRUE
Compared(born_efficiency, others_efficiency) ==
    CHOOSE r \in
        {IF b.status # "shown" \/ o.status # "shown"
         THEN [err |-> "ZeroDivisionError", born_efficiency |-> NotComputed,
               others_efficiency |-> NotComputed, ratio |-> NotComputed]
         ELSE Ratioed(b, o, IF FLt(o.value, b.value) THEN Divided(b.value, o.value)
                            ELSE NotComputed) :
         b \in {born_efficiency}, o \in {others_efficiency}} : TRUE

\* BornVsOthers with "if born_count > 0:" for its guard
BornVsOthers_born_only(born_count, born_contribution, others_count, others_contribution) ==
    CHOOSE r \in
        {IF bc > 0
         THEN Compared(Divided(born_contribution, FromInt(bc)),
                       Divided(others_contribution, FromInt(oc)))
         ELSE [err |-> "none", born_efficiency |-> NotComputed,
               others_efficiency |-> NotComputed, ratio |-> NotComputed] :
         bc \in {born_count}, oc \in {others_count}} : TRUE

\* Born against the others: "if born_count > 0 and others_count > 0:"
BornVsOthers(born_count, born_contribution, others_count, others_contribution) ==
    CHOOSE r \in
        {IF bc > 0 /\ oc > 0
         THEN Compared(Divided(born_contribution, FromInt(bc)),
                       Divided(others_contribution, FromInt(oc)))
         ELSE [err |-> "none", born_efficiency |-> NotComputed,
               others_efficiency |-> NotComputed, ratio |-> NotComputed] :
         bc \in {born_count}, oc \in {others_count}} : TRUE

\* the suggestions written under the comparison
Suggestions(seller_counts) ==
    CHOOSE r \in
        {{t \in {"convert Failed", "nurture Struggling", "attract Born"} :
             \/ t = "convert Failed" /\ CountOf(dict, "Failed") > 0
             \/ t = "nurture Struggling"
                    /\ CountOf(dict, "Struggling") > CountOf(dict, "Grown Successful")
             \/ t = "attract Born" /\ CountOf(dict, "Born Successful") < 5} :
         dict \in {seller_counts}} : TRUE

\* the panel of the optimization proposals once total_sellers > 0 holds
OptimizationShown(comparison, suggestions) ==
    CHOOSE r \in
        {IF cmp.err # "none"
         THEN [err |-> cmp.err, comparison |-> cmp, suggestions |-> {}]
         ELSE [err |-> "none", comparison |-> cmp, suggestions |-> suggestions] :
         cmp \in {comparison}} : TRUE

\* the panel of the optimization proposals
Optimization(seller_counts, total_sellers, final_ltv, archetype_contributions) ==
    CHOOSE r \in
        {IF n > 0
         THEN OptimizationShown(
                  BornVsOthers(born_count, born_contribution, n - born_count,
                               FSub(final_ltv, born_contribution)),
                  Suggestions(seller_counts))
         ELSE [err |-> "none",
               comparison |-> [err |-> "none", born_efficiency |-> NotComputed,
                               others_efficiency |-> NotComputed, ratio |-> NotComputed],
               suggestions |-> {}] :
         n \in {total_sellers},
         born_count \in {CountOf(seller_counts, "Born Successful")},
         born_contribution \in
             {archetype_contributions[IndexOf(archetype_contributions,
                                              "Born Successful")].value}} : TRUE

\* detail_data of the expander: the total and each archetype's own series,
\* projected once more
DetailData(seller_counts, total_sellers, total_ltv_by_year) ==
    IF total_sellers > 0
    THEN CHOOSE r \in
             {[i \in 1..5 |->
                  [Cumulative_LTV          |-> total_ltv_by_year[i],
                   Born_Contribution       |-> own[1].value[i],
                   Grown_Contribution      |-> own[2].value[i],
                   Struggling_Contribution |-> own[3].value[i],
                   Failed_Contribution     |-> own[4].value[i]]] :
              own \in {[j \in 1..4 |->
                          simulate_archetype_ltv(
                              NUMBER_INPUTS[j].archetype,
                              CountOf(seller_counts, NUMBER_INPUTS[j].archetype),
                              DEFAULT_MONTHS)]}} : TRUE
    ELSE << >>

\* what a run has on the screen: an exception ends the run, and the panels
\* below the one that raised it are not rendered
V4Screen(panels) ==
    CHOOSE r \in
        {IF p.contribution_data.err # "none"
         THEN [p EXCEPT !.exception = p.contribution_data.err, !.insights = NotRendered,
                        !.optimization = NotRendered, !.detail_data = << >>]
         ELSE IF p.insights.err # "none"
         THEN [p EXCEPT !.exception = p.insights.err, !.optimization = NotRendered,
                        !.detail_data = << >>]
         ELSE IF p.optimization.err # "none"
         THEN [p EXCEPT !.exception = p.optimization.err, !.detail_data = << >>]
         ELSE p :
         p \in {panels}} : TRUE

\* the panels of a run from the dict of the inputs and the result of
\* calculate_total_ltv
V4Panels(seller_counts, total_sellers, result) ==
    CHOOSE r \in
        {V4Screen([exception         |-> "none",
                   seller_counts     |-> seller_counts,
                   total_sellers     |-> n,
                   final_ltv         |-> res.total_ltv_by_year[5],
                   total_ltv_by_year |-> res.total_ltv_by_year,
                   contribution_data |-> ContributionData(seller_counts,
                                                          res.archetype_contributions,
                                                          Len(res.archetype_contributions)),
                   insights          |-> Insights(seller_counts, n,
                                                  res.total_ltv_by_year[5],
                                                  res.archetype_contributions),
                   optimization      |-> Optimization(seller_counts, n,
                                                      res.total_ltv_by_year[5],
                                                      res.archetype_contributions),
                   detail_data       |-> DetailData(seller_counts, n,
                                                    res.total_ltv_by_year)]) :
         n \in {total_sellers}, res \in {result}} : TRUE

\* one run of the script of ltv_impact_simulator_v4.py
V4Script(state) ==
    CHOOSE r \in
        {V4Panels(seller_counts, CountSum(seller_counts, Len(seller_counts)),
                  calculate_total_ltv(seller_counts)) :
         seller_counts \in {WidgetCounts(NUMBER_INPUTS, state)}} : TRUE

\* streamlit_app.py: the sliders, one for each archetype of the table, value=0
SLIDERS ==
    << [widget |-> "slider_Rising_Star",       archetype |-> "Rising_Star",       value |-> 0],
       [widget |-> "slider_Steady_Performer",  archetype |-> "Steady_Performer",  value |-> 0],
       [widget |-> "slider_Struggling_Seller", archetype |-> "Struggling_Seller", value |-> 0],
       [widget |-> "slider_Underperformer",    archetype |-> "Underperformer",    value |-> 0] >>

\* step of the sliders
SLIDER_STEP == 10

\* MaxYearIdx with the last index of a largest value
MaxYearIdx_last(yearly_projections) ==
    CHOOSE r \in
        {CHOOSE i \in 0..(Len(yp) - 1) :
             /\ \A j \in 1..Len(yp) : FLe(yp[j], yp[i + 1])
             /\ \A j \in (i + 2)..Len(yp) : FLt(yp[j], yp[i + 1]) :
         yp \in {yearly_projections}} : TRUE

\* yearly_projections.index(max(yearly_projections)): the first index, from
\* 0, of a largest value
MaxYearIdx(yearly_projections) ==
    CHOOSE r \in
        {CHOOSE i \in 0..(Len(yp) - 1) :
             /\ \A j \in 1..Len(yp) : FLe(yp[j], yp[i + 1])
             /\ \A j \in 1..i : FLt(yp[j], yp[i + 1]) :
         yp \in {yearly_projections}} : TRUE

\* one row of analysis_data, its two quotients given; a pass that raises
\* leaves the list as it was
AnalysisBooked(before, item, total, per_seller, share) ==
    CHOOSE r \in
        {IF q.status # "shown" \/ sh.status # "shown"
         THEN [err |-> "ZeroDivisionError", data |-> before.data]
         ELSE [err |-> "none",
               data |-> Append(before.data,
                               [key |-> item.key, count |-> item.count, total |-> total,
                                per_seller |-> q.value,
                                share |-> FMul(sh.value, FromInt(100))])] :
         q \in {per_seller}, sh \in {share}} : TRUE

\* one pass of the loop that fills analysis_data: the row of ARCHETYPE_DATA is
\* looked up first, then the contribution
AnalysisStep(before, item, total_impact, archetype_contributions) ==
    CHOOSE r \in
        {IF state.err # "none" \/ ~(it.count > 0) THEN state
         ELSE IF ~HasKey(ARCHETYPE_DATA, it.key) \/ ~HasKey(contributions, it.key)
         THEN [err |-> "KeyError", data |-> state.data]
         ELSE AnalysisBooked(state, it, contributions[IndexOf(contributions, it.key)].total,
                             Divided(contributions[IndexOf(contributions, it.key)].total,
                                     FromInt(it.count)),
                             Divided(contributions[IndexOf(contributions, it.key)].total,
                                     total_impact)) :
         state \in {before}, it \in {item},
         contributions \in {archetype_contributions}} : TRUE
RECURSIVE AnalysisLoop(_, _, _, _)
AnalysisLoop(seller_counts, total_impact, archetype_contributions, k) ==
    IF k = 0 THEN [err |-> "none", data |-> << >>]
    ELSE AnalysisStep(AnalysisLoop(seller_counts, total_impact, archetype_contributions,
                                   k - 1),
                      seller_counts[k], total_impact, archetype_contributions)

\* what a run of main has on the screen: an exception ends the run
AppScreen(panels) ==
    CHOOSE r \in
        {IF p.avg_ltv_per_seller.status # "shown"
         THEN [p EXCEPT !.exception = p.avg_ltv_per_seller.status,
                        !.max_year_idx = -1, !.analysis_data = NotRendered]
         ELSE IF p.analysis_data.err # "none"
         THEN [p EXCEPT !.exception = p.analysis_data.err]
         ELSE p :
         p \in {panels}} : TRUE

\* the result panel of main: the branch "if total_sellers > 0:"
AppResults(seller_counts, total_sellers, result) ==
    CHOOSE r \in
        {AppScreen([exception          |-> "none",
                    rendered           |-> "results",
                    seller_counts      |-> seller_counts,
                    total_sellers      |-> n,
                    total_impact       |-> res.total_impact,
                    yearly_projections |-> res.yearly_projections,
                    yearly_average     |-> FDiv(res.total_impact, FromInt(5)),
                    avg_ltv_per_seller |-> Divided(res.total_impact, FromInt(n)),
                    max_year_idx       |-> MaxYearIdx(res.yearly_projections),
                    analysis_data      |-> AnalysisLoop(seller_counts, res.total_impact,
                                                        res.archetype_contributions,
                                                        Len(seller_counts))]) :
         n \in {total_sellers}, res \in {result}} : TRUE

\* the branch "else:", the guide: no result is computed
AppGuide(seller_counts, total_sellers) ==
    [exception          |-> "none",
     rendered           |-> "guide",
     seller_counts      |-> seller_counts,
     total_sellers      |-> total_sellers,
     total_impact       |-> FZero,
     yearly_projections |-> << >>,
     yearly_average     |-> FZero,
     avg_ltv_per_seller |-> NotComputed,
     max_year_idx       |-> -1,
     analysis_data      |-> [err |-> "none", data |-> << >>]]

\* one run of main of streamlit_app.py
AppScript(state) ==
    CHOOSE r \in
        {IF n > 0 THEN AppResults(seller_counts, n, calculate_ltv_impact(seller_counts))
         ELSE AppGuide(seller_counts, n) :
         seller_counts \in {WidgetCounts(SLIDERS, state)},
         n \in {CountSum(WidgetCounts(SLIDERS, state), Len(SLIDERS))}} : TRUE

\* the values of the widgets when a page is opened
Defaults(widgets) ==
    [w \in {widgets[i].widget : i \in 1..Len(widgets)} |->
        widgets[CHOOSE i \in 1..Len(widgets) : widgets[i].widget = w].value]

\* the values a user gives a number input and a slider: zero, a small count
\* and the largest the widget takes
NumberInputValues == {0, MaxSmallCount, NUMBER_INPUT_MAX}
SliderValues == {0, SLIDER_STEP * MaxSmallCount, SLIDER_MAX}

\* a page is opened: its script runs with the widgets at their defaults
InitPages ==
    /\ pc = "serving"
    /\ call = Pending
    /\ ret = Pending
    /\ ret_doubled = Pending
    /\ \/ /\ app = "ltv_impact_simulator_v4"
          /\ session_state = Defaults(NUMBER_INPUTS)
          /\ screen = V4Script(Defaults(NUMBER_INPUTS))
          /\ tables = ModuleTables("ltv_impact_simulator_v4")
       \/ /\ app = "streamlit_app"
          /\ session_state = Defaults(SLIDERS)
          /\ screen = AppScript(Defaults(SLIDERS))
          /\ tables = ModuleTables("streamlit_app")

\* a number input of ltv_impact_simulator_v4.py is given another value and the
\* script runs again
NumberInputChanged ==
    /\ app = "ltv_impact_simulator_v4"
    /\ \E i \in 1..Len(NUMBER_INPUTS), value \in NumberInputValues :
           /\ value # session_state[NUMBER_INPUTS[i].widget]
           /\ session_state' = [session_state EXCEPT ![NUMBER_INPUTS[i].widget] = value]
    /\ screen' = V4Script(session_state')
    /\ UNCHANGED << pc, call, ret, ret_doubled, app, tables >>

\* a slider of streamlit_app.py is moved and main runs again
SliderChanged ==
    /\ app = "streamlit_app"
    /\ \E i \in 1..Len(SLIDERS), value \in SliderValues :
           /\ value # session_state[SLIDERS[i].widget]
           /\ session_state' = [session_state EXCEPT ![SLIDERS[i].widget] = value]
    /\ screen' = AppScript(session_state')
    /\ UNCHANGED << pc, call, ret, ret_doubled, app, tables >>

NextPages ==
    \/ NumberInputChanged
    \/ SliderChanged

SpecPages == InitPages /\ [][NextPages]_vars

(***************************************************************************)
(* The analytics by themselves: the ranking of the insights panel and the  *)
(* best year of main, applied to contributions and series that need not    *)
(* come from a projection.                                                 *)
(***************************************************************************)
\* the largest contribution (in 500s) and yearly value (in 100s) given to the
\* analytics
MaxUnits == 2

\* the archetypes the panel ranks, in the order they are declared: the keys
\* of ARCHETYPE_PARAMS
RANKED_KEYS == [i \in 1..Len(ARCHETYPE_PARAMS) |-> ARCHETYPE_PARAMS[i].key]

\* the seller counts given to the ranking: none, 10 and 20 of an archetype
RankedCounts == {0, 10, 20}

\* dicts of contributions, all above zero, and of seller counts over
\* RANKED_KEYS
RankingCalls ==
    {[fn |-> "efficiency_data",
      archetype_contributions |->
          [i \in 1..Len(RANKED_KEYS) |->
              [key |-> RANKED_KEYS[i], value |-> FromInt(500 * v[i])]],
      seller_counts |->
          [i \in 1..Len(RANKED_KEYS) |->
              [key |-> RANKED_KEYS[i], count |-> c[i]]]] :
        v \in [1..Len(RANKED_KEYS) -> 1..MaxUnits],
        c \in [1..Len(RANKED_KEYS) -> RankedCounts]}

\* total yearly series of five years
BestYearCalls ==
    {[fn |-> "max_year_idx",
      yearly_projections |-> [i \in 1..5 |-> FromInt(100 * y[i])]] :
        y \in [1..5 -> 0..MaxUnits]}

InitAnalytics ==
    /\ pc = "ready"
    /\ call \in RankingCalls \cup BestYearCalls
    /\ ret = Pending
    /\ ret_doubled = Pending
    /\ app = "none"
    /\ session_state = << >>
    /\ screen = << >>
    /\ tables = ModuleTables("none")

\* the insights panel is computed from the contributions and the counts
RankEfficiency ==
    /\ pc = "ready" /\ call.fn = "efficiency_data"
    /\ ret' = Insights(call.seller_counts,
                       CountSum(call.seller_counts, Len(call.seller_counts)),
                       Sum([j \in 1..Len(call.archetype_contributions) |->
                               call.archetype_contributions[j].value]),
                       call.archetype_contributions)
    /\ pc' = "returned"
    /\ UNCHANGED << call, ret_doubled, app, session_state, screen, tables >>

\* the best year is computed from the total yearly series
BestYear ==
    /\ pc = "ready" /\ call.fn = "max_year_idx"
    /\ ret' = [err |-> "none", max_year_idx |-> MaxYearIdx(call.yearly_projections)]
    /\ pc' = "returned"
    /\ UNCHANGED << call, ret_doubled, app, session_state, screen, tables >>

NextAnalytics ==
    \/ RankEfficiency
    \/ BestYear

SpecAnalytics == InitAnalytics /\ [][NextAnalytics]_vars

(***************************************************************************)
(* Properties of the cores                                                 *)
(***************************************************************************)
\* x and y agree within a relative tolerance of 1e-9
RelTol == Lit(1, 1000000000)
Larger(x, y) == IF FLe(x, y) THEN y ELSE x
Close(x, y) == FLe(FAbs(FSub(x, y)), FMul(RelTol, Larger(FAbs(x), FAbs(y))))

AllZero(series) == \A i \in 1..Len(series) : FIsZero(series[i])
CountsNonNegative(dict) == \A i \in 1..Len(dict) : dict[i].count >= 0
HasCount(dict, key, countset) ==
    \E i \in 1..Len(dict) : dict[i].key = key /\ dict[i].count \in countset
Values(contributions) == [j \in 1..Len(contributions) |-> contributions[j].value]
Totals(contributions) == [j \in 1..Len(contributions) |-> contributions[j].total]

\* an aggregator has returned a result for a dict of non-negative counts
AggregatorReturned(fn) ==
    /\ pc # "ready" /\ call.fn = fn /\ ret.err = "none"
    /\ CountsNonNegative(call.seller_counts)

\* C1, as claimed: for any allocation of non-negative counts the contributions
\* the aggregator returns add up to the last element of the total yearly series
\* it returns, in the survival model and in the annual model.
C1_ContributionsSumToLastYear ==
    /\ AggregatorReturned("calculate_total_ltv") =>
           Close(Sum(Values(ret.archetype_contributions)), ret.total_ltv_by_year[5])
    /\ AggregatorReturned("calculate_ltv_impact") =>
           Close(Sum(Totals(ret.archetype_contributions)), ret.yearly_projections[5])

\* C1, amended: in the survival model the contributions add up to exactly the
\* last element of total_ltv_by_year; in the annual model the per-archetype
\* totals add up to exactly total_impact, which is within tolerance the sum of
\* all five yearly_projections (not the last of them).
C1_ContributionsSumToTotal ==
    /\ AggregatorReturned("calculate_total_ltv") =>
           Sum(Values(ret.archetype_contributions)) = ret.total_ltv_by_year[5]
    /\ AggregatorReturned("calculate_ltv_impact") =>
           /\ Sum(Totals(ret.archetype_contributions)) = ret.total_impact
           /\ Close(ret.total_impact, Sum(ret.yearly_projections))

\* the annual aggregator has returned for a dict with two archetypes present
C1_Witness ==
    /\ AggregatorReturned("calculate_ltv_impact")
    /\ Len(ret.archetype_contributions) >= 2
    /\ ~FIsZero(ret.total_impact)

\* C2, as claimed: a seller count of 0 for an archetype of the table yields a
\* series of five zeros for that archetype, without a pass of the accrual loop,
\* from simulate_archetype_ltv and as the archetype's entry in the result of
\* calculate_ltv_impact.
C2_ZeroCountYieldsZeroSeries ==
    /\ (/\ pc # "ready" /\ call.fn = "simulate_archetype_ltv"
        /\ call.archetype \in SURVIVAL_KEYS /\ call.seller_count = 0
        /\ call.months = DEFAULT_MONTHS) =>
           /\ ret.err = "none" /\ Len(ret.value) = 5 /\ AllZero(ret.value)
           /\ ret.passes = 0
    /\ (pc # "ready" /\ call.fn = "calculate_ltv_impact" /\ ret.err = "none") =>
           \A key \in ANNUAL_KEYS :
               HasCount(call.seller_counts, key, {0}) =>
                   \E j \in 1..Len(ret.archetype_contributions) :
                       /\ ret.archetype_contributions[j].key = key
                       /\ Len(ret.archetype_contributions[j].yearly) = 5
                       /\ AllZero(ret.archetype_contributions[j].yearly)

\* C2, amended: simulate_archetype_ltv with a seller count of 0 returns
\* months // 12 zeros (five at the default horizon) without a pass of the
\* accrual loop; calculate_ltv_impact gives an archetype with a count of 0 no
\* entry in archetype_contributions: its entries are the archetypes with a
\* positive count, in the order of the dict.
C2_ZeroCountFastPath ==
    /\ (/\ pc # "ready" /\ call.fn = "simulate_archetype_ltv"
        /\ call.archetype \in SURVIVAL_KEYS /\ call.seller_count = 0) =>
           /\ ret.err = "none" /\ Len(ret.value) = call.months \div 12
           /\ call.months = DEFAULT_MONTHS => Len(ret.value) = 5
           /\ AllZero(ret.value)
           /\ ret.passes = 0
    /\ (pc # "ready" /\ call.fn = "calculate_ltv_impact" /\ ret.err = "none") =>
           /\ \A key \in ANNUAL_KEYS :
                  HasCount(call.seller_counts, key, {0}) =>
                      \A j \in 1..Len(ret.archetype_contributions) :
                          ret.archetype_contributions[j].key # key
           /\ LET present == SelectSeq(call.seller_counts, LAMBDA item : item.count > 0)
              IN  [j \in 1..Len(ret.archetype_contributions) |->
                      ret.archetype_contributions[j].key]
                  = [j \in 1..Len(present) |-> present[j].key]

\* the annual aggregator has returned for a dict in which one archetype of the
\* table has a count of 0 and another a positive count
C2_Witness ==
    /\ pc = "returned" /\ call.fn = "calculate_ltv_impact" /\ ret.err = "none"
    /\ \E key \in ANNUAL_KEYS : HasCount(call.seller_counts, key, {0})
    /\ Len(ret.archetype_contributions) >= 1

\* the call names an archetype that the table of its model does not have
NamesUnknownArchetype ==
    IF call.fn = "simulate_archetype_ltv" THEN call.archetype \notin SURVIVAL_KEYS
    ELSE IF call.fn = "calculate_total_ltv"
    THEN \E i \in 1..Len(call.seller_counts) : call.seller_counts[i].key \notin SURVIVAL_KEYS
    ELSE \E i \in 1..Len(call.seller_counts) : call.seller_counts[i].key \notin ANNUAL_KEYS

\* the call gives some archetype a negative seller count
GivesNegativeCount ==
    IF call.fn = "simulate_archetype_ltv" THEN call.seller_count < 0
    ELSE ~CountsNonNegative(call.seller_counts)

\* C3: a call that names an archetype absent from the table fails with the
\* unknown-archetype error (Python's KeyError of the table lookup) and returns
\* no result, whatever the seller count given for it, 0 included.
C3_UnknownArchetypeFails ==
    (pc # "ready" /\ NamesUnknownArchetype) => ret.err = "KeyError"

\* C4: a call that gives a negative seller count fails with InvalidAllocation
\* and returns neither a series nor a contribution.
C4_NegativeCountFails ==
    (pc # "ready" /\ GivesNegativeCount) => ret.err = "InvalidAllocation"

\* twice a value, and a series of values doubled
Twice(x) == FMul(FromInt(2), x)
TwiceAll(series) == [i \in 1..Len(series) |-> Twice(series[i])]

\* C5: for every archetype and every seller count k >= 0, counts above the cap
\* of the inputs included, the yearly series and the contribution for the count
\* 2k are exactly twice those for k, with the same archetype and horizon, in
\* the survival model and in the annual model.
C5_LinearInCount ==
    (pc = "doubled" /\ ~GivesNegativeCount /\ ret.err = "none") =>
        /\ ret_doubled.err = "none"
        /\ call.fn = "simulate_archetype_ltv" =>
               ret_doubled.value = TwiceAll(ret.value)
        /\ call.fn = "calculate_total_ltv" =>
               /\ ret_doubled.total_ltv_by_year = TwiceAll(ret.total_ltv_by_year)
               /\ ret_doubled.archetype_contributions =
                      [j \in 1..Len(ret.archetype_contributions) |->
                          [key   |-> ret.archetype_contributions[j].key,
                           value |-> Twice(ret.archetype_contributions[j].value)]]
        /\ call.fn = "calculate_ltv_impact" =>
               /\ ret_doubled.total_impact = Twice(ret.total_impact)
               /\ ret_doubled.yearly_projections = TwiceAll(ret.yearly_projections)
               /\ ret_doubled.archetype_contributions =
                      [j \in 1..Len(ret.archetype_contributions) |->
                          [key    |-> ret.archetype_contributions[j].key,
                           total  |-> Twice(ret.archetype_contributions[j].total),
                           yearly |-> TwiceAll(ret.archetype_contributions[j].yearly)]]

\* the projection of one archetype has been made for a count above the cap of
\* the inputs and for twice that count
C5_Witness ==
    /\ pc = "doubled" /\ call.fn = "simulate_archetype_ltv"
    /\ call.seller_count > NUMBER_INPUT_MAX
    /\ ret.err = "none" /\ ret_doubled.err = "none"
    /\ ~FIsZero(ret_doubled.value[1])

\* the series the survival model projects for each item of a dict by itself,
\* and the series the annual model books for each item by itself
OwnSurvivalSeries(dict) ==
    [j \in 1..Len(dict) |->
        simulate_archetype_ltv(dict[j].key, dict[j].count, DEFAULT_MONTHS).value]
OwnAnnualSeries(dict) ==
    [j \in 1..Len(dict) |->
        YearLoop(ARCHETYPE_DATA[IndexOf(ARCHETYPE_DATA, dict[j].key)],
                 dict[j].count, 5).yearly_ltv]
ElementSums(own) == [i \in 1..5 |-> Sum([j \in 1..Len(own) |-> own[j][i]])]

\* C6: for any allocation, element i (year 1..5) of the total yearly series an
\* aggregator returns is the sum, over all archetypes of the allocation, of
\* element i of the archetype's own yearly series, archetypes with a count of 0
\* adding 0: total_ltv_by_year of calculate_total_ltv and yearly_projections of
\* calculate_ltv_impact.
C6_TotalIsElementwiseSum ==
    /\ AggregatorReturned("calculate_total_ltv") =>
           /\ Len(ret.total_ltv_by_year) = 5
           /\ ret.total_ltv_by_year = ElementSums(OwnSurvivalSeries(call.seller_counts))
    /\ (AggregatorReturned("calculate_ltv_impact") /\ ~NamesUnknownArchetype) =>
           /\ Len(ret.yearly_projections) = 5
           /\ ret.yearly_projections = ElementSums(OwnAnnualSeries(call.seller_counts))

\* an aggregator has returned for a dict of four archetypes, one of them with
\* a count of 0 and two with a positive count, and its first year is not zero
C6_Witness ==
    /\ pc = "returned" /\ call.fn \in {"calculate_total_ltv", "calculate_ltv_impact"}
    /\ ret.err = "none" /\ Len(call.seller_counts) = 4
    /\ \E i, j, k \in 1..4 :
           /\ i # j /\ call.seller_counts[i].count > 0 /\ call.seller_counts[j].count > 0
           /\ call.seller_counts[k].count = 0
    /\ call.fn = "calculate_total_ltv" => ~FIsZero(ret.total_ltv_by_year[1])
    /\ call.fn = "calculate_ltv_impact" => ~FIsZero(ret.yearly_projections[1])

\* q^m for m >= 1 by squaring
RECURSIVE Power(_, _)
Power(q, m) ==
    IF m = 1 THEN q
    ELSE IF m % 2 = 0 THEN CHOOSE r \in {FMul(h, h) : h \in {Power(q, m \div 2)}} : TRUE
    ELSE FMul(q, Power(q, m - 1))

\* base_revenue * (1 + growth_rate)^y * count * retention_rate^(y-1)
AnnualClosedForm(data, count, y) ==
    FMul(FMul(FMul(data.avg_ltv, Power(FAdd(FromInt(1), data.growth_rate), y)),
              FromInt(count)),
         IF y = 1 THEN FromInt(1) ELSE Power(data.retention_rate, y - 1))

\* the scenario: base 1000, growth 0.10, retention 0.80, 100 sellers
ScenarioYearly ==
    YearLoop([key |-> "scenario", avg_ltv |-> FromInt(1000),
              growth_rate |-> Lit(10, 100), retention_rate |-> Lit(80, 100)],
             100, 5).yearly_ltv

\* C7: in the annual model the value booked for year y (1..5) of an archetype
\* with a positive count is base_revenue * (1 + growth_rate)^y * count *
\* retention_rate^(y-1), within a relative tolerance of 1e-9: the retention
\* decay is applied after the year's value is booked, year 1 has the full
\* count; base 1000, growth 0.10, retention 0.80 and 100 sellers give 110000,
\* 96800 and 85184 for the years 1, 2, 3.
C7_AnnualClosedForm ==
    /\ (pc # "ready" /\ call.fn = "calculate_ltv_impact" /\ ret.err = "none") =>
           \A j \in 1..Len(ret.archetype_contributions) :
               \A item \in {call.seller_counts[i] : i \in 1..Len(call.seller_counts)} :
                   (item.key = ret.archetype_contributions[j].key /\ item.count > 0) =>
                       /\ Len(ret.archetype_contributions[j].yearly) = 5
                       /\ \A y \in 1..5 :
                              Close(ret.archetype_contributions[j].yearly[y],
                                    AnnualClosedForm(
                                        ARCHETYPE_DATA[IndexOf(ARCHETYPE_DATA, item.key)],
                                        item.count, y))
    /\ Close(ScenarioYearly[1], FromInt(110000))
    /\ Close(ScenarioYearly[2], FromInt(96800))
    /\ Close(ScenarioYearly[3], FromInt(85184))

\* the annual aggregator has returned the contribution of an archetype with a
\* count above the cap of the sliders, its booked values falling from year 1
C7_Witness ==
    /\ pc = "returned" /\ call.fn = "calculate_ltv_impact" /\ ret.err = "none"
    /\ HasCount(call.seller_counts, "Underperformer", {SLIDER_MAX + 1})
    /\ \E j \in 1..Len(ret.archetype_contributions) :
           /\ ret.archetype_contributions[j].key = "Underperformer"
           /\ FLt(ret.archetype_contributions[j].yearly[2],
                  ret.archetype_contributions[j].yearly[1])

\* sum over m = lo..hi of q^m, each power computed by itself
RECURSIVE PowerSum(_, _, _)
PowerSum(q, lo, hi) ==
    IF lo = hi THEN Power(q, lo)
    ELSE FAdd(PowerSum(q, lo, (lo + hi) \div 2), PowerSum(q, (lo + hi) \div 2 + 1, hi))

\* fee * sum over m = 1..12k of (1 - churn_rate)^m, for each row of the table
\* and k = 1..5
SURVIVAL_CLOSED_FORM ==
    << >> \o [i \in 1..Len(ARCHETYPE_PARAMS) |->
                 << >> \o [k \in 1..5 |->
                     FMul(ARCHETYPE_PARAMS[i].subscription_fee,
                          PowerSum(FSub(FromInt(1), ARCHETYPE_PARAMS[i].monthly_churn_rate),
                                   1, 12 * k))]]

\* C8: in the survival model the value snapshotted for year k of an archetype
\* with a positive count is count * fee * sum over m = 1..12k of
\* (1 - churn_rate)^m, within a relative tolerance of 1e-9: the survival is
\* decayed before the month's fee is accrued, and the snapshots are those of
\* the months 12, 24, 36, 48, 60 that the horizon holds.
C8_SurvivalClosedForm ==
    (/\ pc # "ready" /\ call.fn = "simulate_archetype_ltv"
     /\ call.archetype \in SURVIVAL_KEYS /\ call.seller_count > 0) =>
        /\ ret.err = "none"
        /\ Len(ret.value) = call.months \div 12
        /\ call.months = DEFAULT_MONTHS => Len(ret.value) = 5
        /\ ret.passes = call.months
        /\ \A k \in 1..Len(ret.value) :
               Close(ret.value[k],
                     FMul(FromInt(call.seller_count),
                          SURVIVAL_CLOSED_FORM[IndexOf(ARCHETYPE_PARAMS, call.archetype)][k]))

\* the projection of Born Successful has been made for a positive count over
\* the default horizon
C8_Witness ==
    /\ pc = "returned" /\ call.fn = "simulate_archetype_ltv"
    /\ call.archetype = "Born Successful" /\ call.seller_count = MaxSmallCount
    /\ call.months = DEFAULT_MONTHS /\ Len(ret.value) = 5

\* no value below zero and none below the value of the year before
NonNegativeNonDecreasing(series) ==
    /\ \A i \in 1..Len(series) : FLe(FZero, series[i])
    /\ \A i \in 1..(Len(series) - 1) : FLe(series[i], series[i + 1])

\* C9: for every archetype of the table (churn rate in [0,1), fee >= 0) and
\* every seller count >= 0, each value of the yearly series of the survival
\* model is non-negative and the series is non-decreasing year over year; so
\* is the total yearly series of calculate_total_ltv for every allocation.
C9_SeriesNonDecreasing ==
    /\ (/\ pc # "ready" /\ call.fn = "simulate_archetype_ltv"
        /\ call.archetype \in SURVIVAL_KEYS /\ call.seller_count >= 0) =>
           /\ ret.err = "none" /\ NonNegativeNonDecreasing(ret.value)
           /\ pc = "doubled" =>
                  ret_doubled.err = "none" /\ NonNegativeNonDecreasing(ret_doubled.value)
    /\ AggregatorReturned("calculate_total_ltv") =>
           /\ NonNegativeNonDecreasing(ret.total_ltv_by_year)
           /\ pc = "doubled" => NonNegativeNonDecreasing(ret_doubled.total_ltv_by_year)

\* the survival aggregator has returned a total series that rises from year 1
\* to year 5
C9_Witness ==
    /\ AggregatorReturned("calculate_total_ltv")
    /\ FLt(ret.total_ltv_by_year[1], ret.total_ltv_by_year[5])

\* the archetypes the dict gives a count other than 0
NonZeroKeys(seller_counts) ==
    {seller_counts[i].key : i \in {j \in 1..Len(seller_counts) : seller_counts[j].count # 0}}
KeysOf(entries) == {entries[j].key : j \in 1..Len(entries)}

\* a metric is on the screen when, and only when, its denominator is not zero,
\* and what is on the screen is not zero
ShownIff(metric, denominator_not_zero) ==
    /\ metric.status = IF denominator_not_zero THEN "shown" ELSE "omitted"
    /\ metric.status = "shown" => ~FIsZero(metric.value)

\* C10: for every allocation the inputs reach (counts in 0..cap, all of them
\* zero and a single archetype non-zero included) no run of a page divides by
\* zero: the average LTV per seller, each archetype's efficiency, the
\* efficiencies of Born and of the others with their ratio, and the
\* contribution shares are computed only with a denominator other than zero and
\* are left out otherwise, never shown as zero.
C10_NoDivisionByZero ==
    pc = "serving" =>
        /\ screen.exception = "none"
        /\ app = "ltv_impact_simulator_v4" =>
               /\ ShownIff(screen.insights.avg_ltv_per_seller, screen.total_sellers # 0)
               /\ KeysOf(screen.insights.efficiency_data) = NonZeroKeys(screen.seller_counts)
               /\ Len(screen.insights.efficiency_data)
                      = Cardinality(NonZeroKeys(screen.seller_counts))
               /\ \A j \in 1..Len(screen.insights.efficiency_data) :
                      ~FIsZero(screen.insights.efficiency_data[j].efficiency)
               /\ \A both \in {/\ CountOf(screen.seller_counts, "Born Successful") # 0
                               /\ screen.total_sellers
                                      - CountOf(screen.seller_counts, "Born Successful") # 0} :
                      /\ ShownIff(screen.optimization.comparison.born_efficiency, both)
                      /\ ShownIff(screen.optimization.comparison.others_efficiency, both)
               /\ screen.optimization.comparison.ratio.status = "shown" =>
                      /\ screen.optimization.comparison.others_efficiency.status = "shown"
                      /\ ~FIsZero(screen.optimization.comparison.others_efficiency.value)
                      /\ ~FIsZero(screen.optimization.comparison.ratio.value)
               /\ KeysOf(screen.contribution_data.data) = NonZeroKeys(screen.seller_counts)
               /\ FIsZero(screen.final_ltv) => screen.contribution_data.data = << >>
        /\ app = "streamlit_app" =>
               /\ ShownIff(screen.avg_ltv_per_seller, screen.total_sellers # 0)
               /\ screen.rendered = IF screen.total_sellers # 0 THEN "results" ELSE "guide"
               /\ KeysOf(screen.analysis_data.data) = NonZeroKeys(screen.seller_counts)
               /\ Len(screen.analysis_data.data)
                      = Cardinality(NonZeroKeys(screen.seller_counts))
               /\ \A j \in 1..Len(screen.analysis_data.data) :
                      /\ ~FIsZero(screen.total_impact)
                      /\ ~FIsZero(screen.analysis_data.data[j].per_seller)
                      /\ ~FIsZero(screen.analysis_data.data[j].share)

\* the page of the survival model has run with Born Successful the only
\* archetype with sellers: its efficiency is ranked, the comparison with the
\* others, who are none, is left out
C10_Witness ==
    /\ pc = "serving" /\ app = "ltv_impact_simulator_v4"
    /\ NonZeroKeys(screen.seller_counts) = {"Born Successful"}
    /\ Len(screen.insights.efficiency_data) = 1
    /\ screen.optimization.comparison.born_efficiency.status = "omitted"

\* the place of a key in the order of the declaration
DeclaredAt(dict, key) == CHOOSE i \in 1..Len(dict) : dict[i].key = key

\* the ranking is in descending order of efficiency, and entries of equal
\* efficiency are in the order of the declaration
RankedDescendingStable(ranking, dict) ==
    \A i, j \in 1..Len(ranking) :
        i < j =>
            /\ FLe(ranking[j].efficiency, ranking[i].efficiency)
            /\ ranking[i].efficiency = ranking[j].efficiency =>
                   DeclaredAt(dict, ranking[i].key) < DeclaredAt(dict, ranking[j].key)

\* C12: for any allocation with at least one positive count the efficiency
\* ranking holds exactly the archetypes with a count > 0 (those with a count
\* of 0 are skipped, nothing is raised), each with efficiency = contribution /
\* count, in descending order of efficiency, archetypes of equal efficiency in
\* the order of their declaration (an archetype A with 500 and the archetype
\* B declared after it with 1000, 10 sellers each and none elsewhere, rank B
\* before A; here A is Born Successful and B is Grown Successful).
C12_EfficiencyRanking ==
    (/\ pc = "returned" /\ call.fn = "efficiency_data"
     /\ \E i \in 1..Len(call.seller_counts) : call.seller_counts[i].count > 0) =>
        /\ ret.err = "none"
        /\ ret.ranking_written = Len(ret.efficiency_data)
        /\ Len(ret.efficiency_data)
               = Cardinality({i \in 1..Len(call.seller_counts) :
                                 call.seller_counts[i].count > 0})
        /\ KeysOf(ret.efficiency_data)
               = {call.seller_counts[i].key :
                     i \in {k \in 1..Len(call.seller_counts) :
                               call.seller_counts[k].count > 0}}
        /\ \A j \in 1..Len(ret.efficiency_data) :
               \A i \in 1..Len(call.seller_counts) :
                   call.seller_counts[i].key = ret.efficiency_data[j].key =>
                       ret.efficiency_data[j].efficiency
                           = FDiv(call.archetype_contributions[i].value,
                                  FromInt(call.seller_counts[i].count))
        /\ RankedDescendingStable(ret.efficiency_data, call.seller_counts)
        /\ (/\ call.archetype_contributions[1].value = FromInt(500)
            /\ call.archetype_contributions[2].value = FromInt(1000)
            /\ call.seller_counts[1].count = 10 /\ call.seller_counts[2].count = 10
            /\ \A i \in 3..Len(call.seller_counts) : call.seller_counts[i].count = 0) =>
               /\ Len(ret.efficiency_data) = 2
               /\ ret.efficiency_data[1].key = "Grown Successful"
               /\ ret.efficiency_data[2].key = "Born Successful"
               /\ ret.efficiency_data[1].efficiency = FromInt(100)
               /\ ret.efficiency_data[2].efficiency = FromInt(50)

\* a ranking has been made in which two archetypes are equally efficient, a
\* third is less efficient than they are, and the third is declared first
C12_Witness ==
    /\ pc = "returned" /\ call.fn = "efficiency_data" /\ ret.err = "none"
    /\ Len(ret.efficiency_data) = 3
    /\ ret.efficiency_data[1].efficiency = ret.efficiency_data[2].efficiency
    /\ FLt(ret.efficiency_data[3].efficiency, ret.efficiency_data[2].efficiency)
    /\ ret.efficiency_data[3].key = "Born Successful"

\* the years, from 1, at which a series has its largest value
YearsOfMaximum(series) ==
    {i \in 1..Len(series) : \A j \in 1..Len(series) : FLe(series[j], series[i])}

\* C13: the best-performing year, whenever it is computed, is an index of a
\* maximum of the total yearly series, and the earliest of them when several
\* years share the maximum.
C13_BestYearIsEarliestMaximum ==
    (pc = "returned" /\ call.fn = "max_year_idx") =>
        /\ ret.err = "none"
        /\ ret.max_year_idx + 1 \in YearsOfMaximum(call.yearly_projections)
        /\ \A i \in YearsOfMaximum(call.yearly_projections) : ret.max_year_idx + 1 <= i

\* the best year has been computed for a series whose maximum is shared by the
\* second and the fourth year
C13_Witness ==
    /\ pc = "returned" /\ call.fn = "max_year_idx"
    /\ YearsOfMaximum(call.yearly_projections) = {2, 4}
    /\ ret.max_year_idx = 1

\* C14: in the annual model the headline total_impact is the sum over the
\* archetypes of their contributions' totals and, within a relative tolerance
\* of 1e-9, the sum of the five yearly_projections, so the shares (contribution
\* / total_impact * 100) of the archetypes with a count > 0 add up to 100,
\* within the same tolerance, whenever total_impact > 0.
C14_SharesAddUpTo100 ==
    (pc = "serving" /\ app = "streamlit_app" /\ screen.rendered = "results") =>
        \A rows \in {screen.analysis_data.data} :
            /\ Len(rows) = Cardinality(NonZeroKeys(screen.seller_counts))
            /\ Sum([j \in 1..Len(rows) |-> rows[j].total]) = screen.total_impact
            /\ Close(Sum(screen.yearly_projections), screen.total_impact)
            /\ FLt(FZero, screen.total_impact) =>
                   /\ Close(Sum([j \in 1..Len(rows) |-> rows[j].share]), FromInt(100))
                   /\ \A j \in 1..Len(rows) :
                          Close(rows[j].share,
                                FMul(FDiv(rows[j].total, Sum(screen.yearly_projections)),
                                     FromInt(100)))

\* main has rendered the shares of three archetypes, none of them the whole
C14_Witness ==
    /\ pc = "serving" /\ app = "streamlit_app" /\ screen.rendered = "results"
    /\ Len(screen.analysis_data.data) = 3
    /\ FLt(FZero, screen.total_impact)
    /\ \A j \in 1..3 : FLt(screen.analysis_data.data[j].share, FromInt(100))

=============================================================================
